---- MODULE Spec2Model ----
(***************************************************************************)
(* A model of the YTFS filesystem frontend (src/ytfs.py): the path model,  *)
(* the handle table fd_dict, and the FUSE operations of class YTFS.        *)
(* Strings of the program are sequences of one-character strings, so that  *)
(* path parsing is computed as the code computes it.  YTActions and YTStor *)
(* (module actions) are modelled from the specification.                   *)
(***************************************************************************)
EXTENDS Integers, Sequences, FiniteSets, TLC

VARIABLES searches, acts, stor, fds, pc, loc

vars == <<searches, acts, stor, fds, pc, loc>>

\* ------------------------------------------------------------------ bounds
MaxFd == 2
MaxActs == 2
MaxStor == 2
NThreads == 2
MaxPage == 1
MaxOff == 11

\* ---------------------------------------------------------------- strings
None == <<"None">>
ValueError == <<<<"ValueError">>, <<"ValueError">>>>
Truthy(s) == s # None /\ s # <<>>

Slash == <<"/">>
next == <<" ", "n", "e", "x", "t">>
prev == <<" ", "p", "r", "e", "v">>
bogus == <<" ", "z">>
Queries == {<<"a">>, <<"b">>}
FileName(p) == [i \in 1..(p + 1) |-> "x"]
FileNames == {FileName(p) : p \in 0..MaxPage}

Paths ==
    {<<>>, Slash, Slash \o <<"a">>, Slash \o <<"b">>}
    \cup {Slash \o <<"a">> \o Slash \o f : f \in FileNames \cup {next, prev, bogus}}

\* the paths of the calls, and further paths that path parsing is asked about
AllPaths ==
    Paths \cup {Slash \o Slash,
                Slash \o <<"a">> \o Slash,
                Slash \o <<"a">> \o Slash \o FileName(0) \o Slash,
                Slash \o <<"a">> \o Slash \o FileName(0) \o Slash \o FileName(0),
                Slash \o Slash \o FileName(0),
                <<"a">>,
                <<"a">> \o Slash \o FileName(0)}

\* -------------------------------------------------------------- PathModel
RECURSIVE count(_, _)
count(s, c) ==
    IF s = <<>> THEN 0
    ELSE (IF Head(s) = c THEN 1 ELSE 0) + count(Tail(s), c)

\* str.split(c): the segments between the occurrences of c
RECURSIVE split(_, _)
split(s, c) ==
    IF s = <<>> THEN << <<>> >>
    ELSE LET rest == split(Tail(s), c)
         IN  IF Head(s) = c THEN << <<>> >> \o rest
             ELSE << <<Head(s)>> \o rest[1] >> \o Tail(rest)

\* a conversion that leaves the depth of the path to the split
pathToTupleDeep(path) ==
    IF path = <<>> THEN ValueError
    ELSE LET sp0 == split(path, "/")
         IN  IF sp0[1] # <<>> THEN ValueError
             ELSE LET sp1 == Tail(sp0)
                      sp2 == IF sp1[Len(sp1)] = <<>>
                             THEN SubSeq(sp1, 1, Len(sp1) - 1) ELSE sp1
                      d == IF Len(sp2) >= 1 THEN sp2[1] ELSE None
                      f == IF Len(sp2) >= 2 THEN sp2[2] ELSE None
                  IN  IF Len(sp2) > 2 THEN ValueError
                      ELSE IF ~Truthy(d) /\ Truthy(f) THEN ValueError
                      ELSE <<d, f>>

pathToTuple(path) ==
    IF path = <<>> \/ count(path, "/") > 2 THEN ValueError
    ELSE LET sp0 == split(path, "/")
         IN  IF sp0[1] # <<>> THEN ValueError
             ELSE LET sp1 == Tail(sp0)
                      sp2 == IF sp1[Len(sp1)] = <<>>
                             THEN SubSeq(sp1, 1, Len(sp1) - 1) ELSE sp1
                      d == IF Len(sp2) >= 1 THEN sp2[1] ELSE None
                      f == IF Len(sp2) >= 2 THEN sp2[2] ELSE None
                  IN  IF Len(sp2) > 2 THEN ValueError
                      ELSE IF ~Truthy(d) /\ Truthy(f) THEN ValueError
                      ELSE <<d, f>>

\* _pathdec: the path argument as a tuple identifier, ValueError when the path is
\* bad (the conversion of each path the bridge passes, computed once)
tupleOf == [path \in AllPaths |-> pathToTuple(path)]
pathdec(path) == tupleOf[path]

PathType(p) ==
    IF p[1] = None /\ p[2] = None THEN "main"
    ELSE IF Truthy(p[1]) /\ p[2] = None THEN "subdir"
    ELSE IF Truthy(p[1]) /\ Truthy(p[2])
         THEN (IF p[2][1] = " " THEN "ctrl" ELSE "file")
    ELSE "invalid"

\* ------------------------------------------------- YTActions (ResultSet)
\* A reference to no object: the binding of a control-file handle.
NoStor == 0

Extend(f, k, v) == [x \in DOMAIN f \cup {k} |-> IF x = k THEN v ELSE f[x]]
Remove(f, k) == [x \in DOMAIN f \ {k} |-> f[x]]

YTActions(q) == [query |-> q, page |-> 0, files |-> <<>>, cleaned |-> FALSE]
\* a store of ResultSet r (owner: the ResultSet that built it)
YTStor(r) == [state |-> "new", fds |-> {}, owner |-> r]

\* name in resultSet: the names of the current page and the two control files
Contains(A, r, name) == name \in DOMAIN A[r].files \/ name \in {next, prev}

\* the page the cursor moves to; paging clamps at the first and the last page
Turn(page, d) ==
    IF d = "next" THEN (IF page < MaxPage THEN page + 1 ELSE MaxPage)
    ELSE IF d = "prev" THEN (IF page > 0 THEN page - 1 ELSE 0)
    ELSE page

\* updateResults builds a fresh page unless the cursor stays on a built page
Rebuilds(A, r, d) == DOMAIN A[r].files = {} \/ Turn(A[r].page, d) # A[r].page

Closed(S, ids) == [i \in 1..Len(S) |-> IF i \in ids THEN [S[i] EXCEPT !.state = "closed"] ELSE S[i]]
Owned(A, r) == {A[r].files[n] : n \in DOMAIN A[r].files}

updateResultsActs(A, S, r, d) ==
    IF Rebuilds(A, r, d)
    THEN [A EXCEPT ![r].page = Turn(A[r].page, d),
                   ![r].files = [n \in {FileName(Turn(A[r].page, d))} |-> Len(S) + 1]]
    ELSE A
updateResultsStor(A, S, r, d) ==
    IF Rebuilds(A, r, d) THEN Append(Closed(S, Owned(A, r)), YTStor(r)) ELSE S

cleanActs(A, r) == [A EXCEPT ![r].files = <<>>, ![r].cleaned = TRUE]
cleanStor(A, S, r) == Closed(S, Owned(A, r))

\* ------------------------------------------------------------- __exists
exists(p) ==
    \/ (~Truthy(p[1]) /\ ~Truthy(p[2]))
    \/ (p[1] \in DOMAIN searches /\ ~Truthy(p[2]))
    \/ (p[1] \in DOMAIN searches /\ Contains(acts, searches[p[1]], p[2]))

\* ---------------------------------------------------------------- fd_dict
RECURSIVE pushFrom(_, _)
pushFrom(keys, k) == IF k \in keys THEN pushFrom(keys, k + 1) ELSE k
\* a push that numbers the descriptors by the size of the table
pushLen(keys) == Cardinality(keys)
push(keys) == pushFrom(keys, 0)

\* ------------------------------------------------------------------ YTFS
\* What a call gives back: the errno it raises ("" when it returns, "exception"
\* for an error that is no errno), the integer it returns, the bytes it returns.
Ret(err, val, data) == [err |-> err, val |-> val, data |-> data]
Err(e) == Ret(e, 0, <<>>)
Ok == Ret("", 0, <<>>)

sh_script == <<35, 33, 47, 98, 105, 110, 47, 115, 104, 10>>

Min(a, b) == IF a < b THEN a ELSE b
\* bytes[a:b] for non-negative a and b
Slice(s, a, b) == SubSeq(s, Min(a, Len(s)) + 1, Min(b, Len(s)))

Init ==
    /\ searches = <<>>
    /\ acts = <<>>
    /\ stor = <<>>
    /\ fds = <<>>
    /\ pc = <<>>
    /\ loc = <<>>

\* ---- mkdir
mkdirCheck(tid) ==
    IF PathType(tid) \in {"invalid", "file"} THEN "EPERM"
    ELSE IF exists(tid) THEN "EEXIST"
    ELSE ""

mkdirRet(path, ok) ==
    LET tid == pathdec(path)
    IN  IF tid = ValueError THEN Err("EINVAL")
        ELSE IF mkdirCheck(tid) # "" THEN Err(mkdirCheck(tid))
        ELSE IF ok THEN Ok ELSE Err("exception")

mkdir(path, ok) ==
    LET tid == pathdec(path)
        r == Len(acts) + 1
        A1 == Append(acts, YTActions(tid[1]))
    IN  IF tid = ValueError \/ mkdirCheck(tid) # "" THEN UNCHANGED vars
        ELSE /\ Len(acts) < MaxActs
             /\ Len(stor) < MaxStor
             /\ searches' = Extend(searches, tid[1], r)
             /\ acts' = IF ok THEN updateResultsActs(A1, stor, r, "refresh") ELSE A1
             /\ stor' = IF ok THEN updateResultsStor(A1, stor, r, "refresh") ELSE stor
             /\ UNCHANGED <<fds, pc, loc>>

\* ---- rename
renameCheck(old, new) ==
    IF ~exists(old) THEN "ENOENT"
    ELSE IF PathType(old) # "subdir" \/ PathType(new) # "subdir" THEN "EPERM"
    ELSE IF exists(new) THEN "EEXIST"
    ELSE ""

renameRet(path, path2, ok) ==
    LET old == pathdec(path)
        new == pathdec(path2)
    IN  IF old = ValueError \/ new = ValueError THEN Err("EINVAL")
        ELSE IF renameCheck(old, new) # "" THEN Err(renameCheck(old, new))
        ELSE IF ok THEN Ok ELSE Err("exception")

rename(path, path2, ok) ==
    LET old == pathdec(path)
        new == pathdec(path2)
        r == Len(acts) + 1
        A1 == Append(acts, YTActions(new[1]))
    IN  IF old = ValueError \/ new = ValueError THEN UNCHANGED vars
        ELSE IF renameCheck(old, new) # "" THEN UNCHANGED vars
        ELSE /\ Len(acts) < MaxActs
             /\ Len(stor) < MaxStor
             /\ IF ok
                THEN /\ searches' = Remove(Extend(searches, new[1], r), old[1])
                     /\ acts' = updateResultsActs(A1, stor, r, "refresh")
                     /\ stor' = updateResultsStor(A1, stor, r, "refresh")
                ELSE /\ searches' = Extend(searches, new[1], r)
                     /\ acts' = A1
                     /\ stor' = stor
             /\ UNCHANGED <<fds, pc, loc>>

\* ---- rmdir
\* an rmdir that takes the root for a file
rmdirCheckRoot(tid) ==
    IF PathType(tid) # "subdir" THEN "ENOTDIR"
    ELSE IF tid[1] \notin DOMAIN searches THEN "ENOENT"
    ELSE ""

rmdirCheck(tid) ==
    IF PathType(tid) = "main" THEN "EINVAL"
    ELSE IF PathType(tid) # "subdir" THEN "ENOTDIR"
    ELSE IF tid[1] \notin DOMAIN searches THEN "ENOENT"
    ELSE ""

rmdirRet(path) ==
    LET tid == pathdec(path)
    IN  IF tid = ValueError THEN Err("EINVAL")
        ELSE IF rmdirCheck(tid) # "" THEN Err(rmdirCheck(tid))
        ELSE Ok

\* self.searches[tid[0]].clean(), as it leaves the ResultSets and the stores
rmdirCleanActs(r) == cleanActs(acts, r)
\* an rmdir that drops the directory without cleaning its stores
rmdirNoClean(r) == stor
rmdirCleanStor(r) == cleanStor(acts, stor, r)

\* an rmdir that also drops the handles on the stores of the directory
rmdirDropHandles(path) ==
    LET tid == pathdec(path)
    IN  IF tid = ValueError \/ rmdirCheck(tid) # "" THEN UNCHANGED vars
        ELSE /\ acts' = rmdirCleanActs(searches[tid[1]])
             /\ stor' = rmdirCleanStor(searches[tid[1]])
             /\ searches' = Remove(searches, tid[1])
             /\ fds' = [fh \in {g \in DOMAIN fds : fds[g] \notin Owned(acts, searches[tid[1]])} |-> fds[fh]]
             /\ UNCHANGED <<pc, loc>>

rmdir(path) ==
    LET tid == pathdec(path)
    IN  IF tid = ValueError \/ rmdirCheck(tid) # "" THEN UNCHANGED vars
        ELSE /\ acts' = rmdirCleanActs(searches[tid[1]])
             /\ stor' = rmdirCleanStor(searches[tid[1]])
             /\ searches' = Remove(searches, tid[1])
             /\ UNCHANGED <<fds, pc, loc>>

\* ---- unlink
unlinkRet(path) == IF pathdec(path) = ValueError THEN Err("EINVAL") ELSE Ok

\* an unlink that takes the name out of the page of its directory
unlinkRemove(path) ==
    LET tid == pathdec(path)
    IN  IF tid = ValueError THEN UNCHANGED vars
        ELSE IF PathType(tid) # "file" \/ ~exists(tid) THEN UNCHANGED vars
        ELSE /\ acts' = [acts EXCEPT ![searches[tid[1]]].files = Remove(@, tid[2])]
             /\ UNCHANGED <<searches, stor, fds, pc, loc>>

unlink(path) == UNCHANGED vars

\* ---- open
\* flags & os.O_WRONLY or flags & os.O_RDWR
O_WRONLY == 1
O_RDWR == 2
BitSet(flags, bit) == (flags \div bit) % 2 = 1
\* a flag test that forgets the read-write mode
WriteFlagsWronly(flags) == BitSet(flags, O_WRONLY)
WriteFlags(flags) == BitSet(flags, O_WRONLY) \/ BitSet(flags, O_RDWR)

\* YTStor.obtainInfo: new -> ready or closed; ready stays ready
obtainInfo(S, s, ok) == S[s].state = "ready" \/ (S[s].state = "new" /\ ok)
obtainInfoStor(S, s, ok) ==
    [S EXCEPT ![s].state = IF obtainInfo(S, s, ok) THEN "ready" ELSE "closed"]
registerHandler(S, s, fh) == [S EXCEPT ![s].fds = @ \cup {fh}]

openCheck(tid, flags) ==
    IF PathType(tid) \notin {"file", "ctrl"} THEN "EINVAL"
    ELSE IF WriteFlags(flags) THEN "EROFS"
    ELSE IF ~exists(tid) THEN "ENOENT"
    ELSE ""

\* self.searches[tid[0]][tid[1]] raises KeyError: a control file
IsCtrl(tid) == tid[2] \notin DOMAIN acts[searches[tid[1]]].files
Lookup(tid) == acts[searches[tid[1]]].files[tid[2]]

openRet(path, flags, ok) ==
    LET tid == pathdec(path)
    IN  IF tid = ValueError THEN Err("EINVAL")
        ELSE IF openCheck(tid, flags) # "" THEN Err(openCheck(tid, flags))
        ELSE IF IsCtrl(tid) THEN Ret("", push(DOMAIN fds), <<>>)
        ELSE IF obtainInfo(stor, Lookup(tid), ok) THEN Ret("", push(DOMAIN fds), <<>>)
        ELSE Err("ENOENT")

\* an open that allocates the handle before it asks the store for its information
openPushFirst(path, flags, ok) ==
    LET tid == pathdec(path)
        k == push(DOMAIN fds)
    IN  IF tid = ValueError THEN UNCHANGED vars
        ELSE IF openCheck(tid, flags) # "" THEN UNCHANGED vars
        ELSE IF IsCtrl(tid)
        THEN /\ Cardinality(DOMAIN fds) < MaxFd
             /\ fds' = Extend(fds, k, NoStor)
             /\ UNCHANGED <<searches, acts, stor, pc, loc>>
        ELSE /\ Cardinality(DOMAIN fds) < MaxFd
             /\ fds' = Extend(fds, k, Lookup(tid))
             /\ stor' = IF obtainInfo(stor, Lookup(tid), ok)
                        THEN registerHandler(obtainInfoStor(stor, Lookup(tid), ok), Lookup(tid), k)
                        ELSE obtainInfoStor(stor, Lookup(tid), ok)
             /\ UNCHANGED <<searches, acts, pc, loc>>

\* an open that binds the handle and forgets to register it with the store
openNoRegister(path, flags, ok) ==
    LET tid == pathdec(path)
        k == push(DOMAIN fds)
    IN  IF tid = ValueError THEN UNCHANGED vars
        ELSE IF openCheck(tid, flags) # "" THEN UNCHANGED vars
        ELSE IF IsCtrl(tid)
        THEN /\ Cardinality(DOMAIN fds) < MaxFd
             /\ fds' = Extend(fds, k, NoStor)
             /\ UNCHANGED <<searches, acts, stor, pc, loc>>
        ELSE IF obtainInfo(stor, Lookup(tid), ok)
        THEN /\ Cardinality(DOMAIN fds) < MaxFd
             /\ fds' = Extend(fds, k, Lookup(tid))
             /\ stor' = obtainInfoStor(stor, Lookup(tid), ok)
             /\ UNCHANGED <<searches, acts, pc, loc>>
        ELSE /\ stor' = obtainInfoStor(stor, Lookup(tid), ok)
             /\ UNCHANGED <<searches, acts, fds, pc, loc>>

open(path, flags, ok) ==
    LET tid == pathdec(path)
        k == push(DOMAIN fds)
    IN  IF tid = ValueError THEN UNCHANGED vars
        ELSE IF openCheck(tid, flags) # "" THEN UNCHANGED vars
        ELSE IF IsCtrl(tid)
        THEN /\ Cardinality(DOMAIN fds) < MaxFd
             /\ fds' = Extend(fds, k, NoStor)
             /\ UNCHANGED <<searches, acts, stor, pc, loc>>
        ELSE IF obtainInfo(stor, Lookup(tid), ok)
        THEN /\ Cardinality(DOMAIN fds) < MaxFd
             /\ fds' = Extend(fds, k, Lookup(tid))
             /\ stor' = registerHandler(obtainInfoStor(stor, Lookup(tid), ok), Lookup(tid), k)
             /\ UNCHANGED <<searches, acts, pc, loc>>
        ELSE /\ stor' = obtainInfoStor(stor, Lookup(tid), ok)
             /\ UNCHANGED <<searches, acts, fds, pc, loc>>

\* ---- read
\* YTStor.read: the bytes of the store, clipped to its size; none once closed
filesize == 2
storRead(s, offset, length) ==
    [i \in 1..(Min(offset + length, filesize) - Min(offset, filesize)) |-> s]

\* the page operation a control-file read asks for
\* a read that takes every control file for the forward one
directionNext(tid) == "next"
direction(tid) ==
    IF tid[2] = next THEN "next" ELSE IF tid[2] = prev THEN "prev" ELSE "refresh"

readRet(path, length, offset, fh, ok) ==
    LET tid == pathdec(path)
    IN  IF tid = ValueError THEN Err("EINVAL")
        ELSE IF fh \notin DOMAIN fds THEN Err("EBADF")
        ELSE IF fds[fh] # NoStor
        THEN (IF stor[fds[fh]].state = "closed" THEN Err("EIO")
              ELSE Ret("", 0, storRead(fds[fh], offset, length)))
        ELSE IF tid[1] \notin DOMAIN searches THEN Err("EINVAL")
        ELSE IF ok THEN Ret("", 0, Slice(sh_script, offset, offset + length))
        ELSE Err("exception")

read(path, length, offset, fh, ok) ==
    LET tid == pathdec(path)
    IN  IF tid = ValueError \/ fh \notin DOMAIN fds THEN UNCHANGED vars
        ELSE IF fds[fh] # NoStor THEN UNCHANGED vars
        ELSE IF tid[1] \notin DOMAIN searches THEN UNCHANGED vars
        ELSE LET r == searches[tid[1]]
                 d == direction(tid)
             IN  /\ Rebuilds(acts, r, d) => Len(stor) < MaxStor
                 /\ acts' = IF ok THEN updateResultsActs(acts, stor, r, d) ELSE acts
                 /\ stor' = IF ok THEN updateResultsStor(acts, stor, r, d) ELSE stor
                 /\ UNCHANGED <<searches, fds, pc, loc>>

\* ---- release
\* a release that does not mind an id that is not in the table
releaseRetQuiet(path, fh) ==
    IF pathdec(path) = ValueError THEN Err("EINVAL") ELSE Ok

releaseRet(path, fh) ==
    IF pathdec(path) = ValueError THEN Err("EINVAL")
    ELSE IF fh \notin DOMAIN fds THEN Err("EBADF")
    ELSE Ok

release(path, fh) ==
    IF pathdec(path) = ValueError \/ fh \notin DOMAIN fds THEN UNCHANGED vars
    ELSE /\ fds' = Remove(fds, fh)
         /\ UNCHANGED <<searches, acts, stor, pc, loc>>

\* ---- getattr
getattrCheck(tid) == IF ~exists(tid) THEN "ENOENT" ELSE ""

\* the attributes getattr gives back: st_mode as the file type and the
\* permission bits (0o555 = 365, 0o444 = 292), and st_size
Stat(err, kind, mode, size) == [err |-> err, kind |-> kind, mode |-> mode, size |-> size]

\* a getattr that gives the control files the mode of the result files
getattrRetCtrl(path) ==
    LET tid == pathdec(path)
    IN  IF tid = ValueError THEN Stat("EINVAL", "", 0, 0)
        ELSE IF getattrCheck(tid) # "" THEN Stat(getattrCheck(tid), "", 0, 0)
        ELSE IF PathType(tid) \in {"file", "ctrl"} THEN Stat("", "S_IFREG", 292, filesize)
        ELSE Stat("", "S_IFDIR", 365, 4096)

getattrRet(path) ==
    LET tid == pathdec(path)
    IN  IF tid = ValueError THEN Stat("EINVAL", "", 0, 0)
        ELSE IF getattrCheck(tid) # "" THEN Stat(getattrCheck(tid), "", 0, 0)
        ELSE IF PathType(tid) = "file" THEN Stat("", "S_IFREG", 292, filesize)
        ELSE IF PathType(tid) = "ctrl" THEN Stat("", "S_IFREG", 365, Len(sh_script))
        ELSE Stat("", "S_IFDIR", 365, 4096)

getattr(path) == UNCHANGED vars

\* ---- readdir: ['.', '..'] + ret (the names in some order)
RECURSIVE list(_)
list(S) == IF S = {} THEN <<>> ELSE LET x == CHOOSE y \in S : TRUE IN <<x>> \o list(S \ {x})

readdirCheck(tid) ==
    IF PathType(tid) = "main" THEN ""
    ELSE IF PathType(tid) = "subdir" THEN (IF tid[1] \in DOMAIN searches THEN "" ELSE "ENOENT")
    ELSE IF PathType(tid) = "file" THEN "ENOTDIR"
    ELSE "ENOENT"

readdirList(tid) ==
    << <<".">>, <<".", ".">> >> \o
        (IF PathType(tid) = "main" THEN list(DOMAIN searches)
         ELSE list(DOMAIN acts[searches[tid[1]]].files \cup {next, prev}))

\* a readdir that lists an absent directory as an empty one
readdirRetEmpty(path) ==
    LET tid == pathdec(path)
    IN  IF tid = ValueError THEN Err("EINVAL")
        ELSE IF readdirCheck(tid) = "ENOTDIR" THEN Err("ENOTDIR")
        ELSE IF PathType(tid) = "main" THEN Ret("", 0, readdirList(tid))
        ELSE IF PathType(tid) = "subdir" /\ tid[1] \in DOMAIN searches THEN Ret("", 0, readdirList(tid))
        ELSE Ret("", 0, << <<".">>, <<".", ".">> >>)

readdirRet(path) ==
    LET tid == pathdec(path)
    IN  IF tid = ValueError THEN Err("EINVAL")
        ELSE IF readdirCheck(tid) # "" THEN Err(readdirCheck(tid))
        ELSE Ret("", 0, readdirList(tid))

readdir(path) == UNCHANGED vars

\* ------------------------------------------------- the calls of the bridge
Handles == 0..MaxFd
Flags == {0, O_WRONLY, O_RDWR}
Windows == {<<0, MaxOff>>, <<MaxOff - 1, 1>>}
ReadPaths == {<<>>} \cup {Slash \o <<"a">> \o Slash \o f : f \in {FileName(0), next, prev}}
DirPaths == {<<>>, Slash, Slash \o <<"a">>, Slash \o <<"b">>, Slash \o <<"a">> \o Slash \o FileName(0)}

Mkdir == \E path \in Paths, ok \in BOOLEAN : mkdir(path, ok)
Rename == \E path \in DirPaths, path2 \in DirPaths, ok \in BOOLEAN : rename(path, path2, ok)
Rmdir == \E path \in Paths : rmdir(path)
Unlink == \E path \in Paths : unlink(path)
Open == \E path \in Paths, flags \in Flags, ok \in BOOLEAN : open(path, flags, ok)
Read ==
    \E path \in ReadPaths, w \in Windows, fh \in Handles, ok \in BOOLEAN :
        read(path, w[2], w[1], fh, ok)
Release == \E path \in DirPaths, fh \in Handles : release(path, fh)
Getattr == \E path \in Paths : getattr(path)
Readdir == \E path \in Paths : readdir(path)

Next == Mkdir \/ Rename \/ Rmdir \/ Unlink \/ Open \/ Read \/ Release \/ Getattr \/ Readdir

Spec == Init /\ [][Next]_vars

\* --------------------------------------------- the calls, run concurrently
\* The bridge delivers calls on several threads; a thread switch can fall
\* between any two statements of a method.  pc[t] is the statement thread t is
\* at, loc[t] its local variables; loc[t].held are the descriptors the caller
\* on t got from open and has not released.
Threads == 1..NThreads
Locals(held) == [tid |-> <<None, None>>, k |-> 0, yts |-> NoStor, held |-> held]
ConcPaths == {Slash \o <<"a">>, Slash \o <<"a">> \o Slash \o FileName(0), Slash \o <<"a">> \o Slash \o next}

InitConc ==
    /\ searches = <<>>
    /\ acts = <<>>
    /\ stor = <<>>
    /\ fds = <<>>
    /\ pc = [t \in Threads |-> "idle"]
    /\ loc = [t \in Threads |-> Locals({})]

Goto(t, label, l) ==
    /\ pc' = [pc EXCEPT ![t] = label]
    /\ loc' = [loc EXCEPT ![t] = l]
\* the call returns or raises: the locals are gone
Return(t, held) == Goto(t, "idle", Locals(held))

\* the threads inside open that have yet to return
Pushing == {u \in Threads : pc[u] \in {"push_test", "push_set", "register"}}

\* open (read-only), up to the call of push
open_begin(t, path) ==
    LET tid == pathdec(path)
    IN  /\ pc[t] = "idle"
        /\ Cardinality(DOMAIN fds) + Cardinality(Pushing) < MaxFd
        /\ IF openCheck(tid, 0) # ""
           THEN Return(t, loc[t].held) /\ UNCHANGED <<searches, acts, stor, fds>>
           ELSE IF IsCtrl(tid)
           THEN /\ Goto(t, "push_test", [loc[t] EXCEPT !.tid = tid, !.yts = NoStor, !.k = 0])
                /\ UNCHANGED <<searches, acts, stor, fds>>
           ELSE /\ stor' = obtainInfoStor(stor, Lookup(tid), TRUE)
                /\ IF obtainInfo(stor, Lookup(tid), TRUE)
                   THEN Goto(t, "push_test", [loc[t] EXCEPT !.tid = tid, !.yts = Lookup(tid), !.k = 0])
                   ELSE Return(t, loc[t].held)
                /\ UNCHANGED <<searches, acts, fds>>

\* while k in self.keys(): k += 1
push_test(t) ==
    /\ pc[t] = "push_test"
    /\ IF loc[t].k \in DOMAIN fds
       THEN Goto(t, "push_test", [loc[t] EXCEPT !.k = @ + 1])
       ELSE Goto(t, "push_set", loc[t])
    /\ UNCHANGED <<searches, acts, stor, fds>>

\* self[k] = yts; return k
push_set(t) ==
    /\ pc[t] = "push_set"
    /\ fds' = Extend(fds, loc[t].k, loc[t].yts)
    /\ IF loc[t].yts = NoStor
       THEN Return(t, loc[t].held \cup {loc[t].k})
       ELSE Goto(t, "register", loc[t])
    /\ UNCHANGED <<searches, acts, stor>>

\* yts.registerHandler(fh); return fh
open_register(t) ==
    /\ pc[t] = "register"
    /\ stor' = registerHandler(stor, loc[t].yts, loc[t].k)
    /\ Return(t, loc[t].held \cup {loc[t].k})
    /\ UNCHANGED <<searches, acts, fds>>

\* release of a descriptor the caller holds: del self.fds[fh]
release_call(t, fh) ==
    /\ pc[t] = "idle"
    /\ fh \in loc[t].held
    /\ fds' = IF fh \in DOMAIN fds THEN Remove(fds, fh) ELSE fds
    /\ Return(t, loc[t].held \ {fh})
    /\ UNCHANGED <<searches, acts, stor>>

\* mkdir of a search directory, up to the insertion
mkdir_begin(t, path) ==
    LET tid == pathdec(path)
    IN  /\ pc[t] = "idle"
        /\ PathType(tid) = "subdir"
        /\ IF mkdirCheck(tid) # ""
           THEN Return(t, loc[t].held)
           ELSE Goto(t, "mkdir_insert", [loc[t] EXCEPT !.tid = tid])
        /\ UNCHANGED <<searches, acts, stor, fds>>

\* self.searches[tid[0]] = YTActions(tid[0])
mkdir_insert(t) ==
    /\ pc[t] = "mkdir_insert"
    /\ Len(acts) < MaxActs
    /\ acts' = Append(acts, YTActions(loc[t].tid[1]))
    /\ searches' = Extend(searches, loc[t].tid[1], Len(acts) + 1)
    /\ Goto(t, "mkdir_update", loc[t])
    /\ UNCHANGED <<stor, fds>>

\* self.searches[tid[0]].updateResults(); return 0
mkdir_update(t) ==
    LET r == searches[loc[t].tid[1]]
    IN  /\ pc[t] = "mkdir_update"
        /\ Rebuilds(acts, r, "refresh") => Len(stor) < MaxStor
        /\ acts' = updateResultsActs(acts, stor, r, "refresh")
        /\ stor' = updateResultsStor(acts, stor, r, "refresh")
        /\ Return(t, loc[t].held)
        /\ UNCHANGED <<searches, fds>>

NextConc ==
    \E t \in Threads :
        \/ \E path \in ConcPaths : open_begin(t, path)
        \/ push_test(t)
        \/ push_set(t)
        \/ open_register(t)
        \/ \E fh \in Handles : release_call(t, fh)
        \/ \E path \in ConcPaths : mkdir_begin(t, path)
        \/ mkdir_insert(t)
        \/ mkdir_update(t)

SpecConc == InitConc /\ [][NextConc]_vars

\* ================================================================ claims
Range(f) == {f[x] : x \in DOMAIN f}
Parseable(path) == pathdec(path) # ValueError
LowestFree(keys, k) == k \notin keys /\ \A j \in 0..(k - 1) : j \in keys

\* C1: every id a successful open allocates is the smallest non-negative integer
\* that is not a key of the handle table at that moment; a successful release(fh)
\* takes fh, and only fh, out of the table, so that push returns it again as soon
\* as every smaller id is in use.
C1_HandleAllocation ==
    /\ [](LowestFree(DOMAIN fds, push(DOMAIN fds)))
    /\ [][fds' # fds =>
            /\ \A path \in Paths, flags \in Flags, ok \in BOOLEAN :
                 (open(path, flags, ok) /\ openRet(path, flags, ok).err = "") =>
                     /\ LowestFree(DOMAIN fds, openRet(path, flags, ok).val)
                     /\ DOMAIN fds' = DOMAIN fds \cup {openRet(path, flags, ok).val}
                     /\ \A fh \in DOMAIN fds : fds'[fh] = fds[fh]
            /\ \A path \in DirPaths, fh \in Handles :
                 (release(path, fh) /\ releaseRet(path, fh).err = "") =>
                     /\ DOMAIN fds' = DOMAIN fds \ {fh}
                     /\ push(DOMAIN fds') <= fh
                     /\ \A g \in DOMAIN fds' : fds'[g] = fds[g]]_vars

\* id 0 was bound to a store, was released and has been allocated again (to
\* something else) while id 1 stayed in use
C1_Witness ==
    /\ {0, 1} \subseteq DOMAIN fds
    /\ \E s \in 1..Len(stor) : 0 \in stor[s].fds /\ fds[0] # s

\* C2: opens and releases that run concurrently never leave two callers holding
\* the same descriptor, and every descriptor a caller holds is in the table.
C2_DistinctHandles ==
    /\ \A t \in Threads, u \in Threads : t # u => loc[t].held \cap loc[u].held = {}
    /\ \A t \in Threads : loc[t].held \subseteq DOMAIN fds

\* C3: for every store, the handle ids registered with it are exactly the ids
\* of the handle table that are bound to it.
C3_RegisteredAreBound ==
    \A s \in 1..Len(stor) : stor[s].fds = {fh \in DOMAIN fds : fds[fh] = s}

\* C4: a rename between two search-dir paths that returns success leaves old
\* absent and new present with a newly initialized ResultSet; one that fails
\* leaves the set of query directories as it was.
C4_RenameAtomic ==
    [][searches' # searches =>
        \A path \in DirPaths, path2 \in DirPaths, ok \in BOOLEAN :
            (/\ Parseable(path) /\ Parseable(path2)
             /\ PathType(pathdec(path)) = "subdir" /\ PathType(pathdec(path2)) = "subdir"
             /\ rename(path, path2, ok)) =>
                IF renameRet(path, path2, ok).err = ""
                THEN /\ pathdec(path)[1] \notin DOMAIN searches'
                     /\ pathdec(path2)[1] \in DOMAIN searches'
                     /\ searches'[pathdec(path2)[1]] = Len(acts) + 1
                     /\ acts'[Len(acts) + 1].page = 0
                     /\ DOMAIN acts'[Len(acts) + 1].files = {FileName(0)}
                ELSE DOMAIN searches' = DOMAIN searches]_vars

\* C5: a rename that returns success has invoked cleanup on the old ResultSet:
\* it is marked cleaned and every store it owned is closed.
C5_RenameCleansOld ==
    [][searches' # searches =>
        \A path \in DirPaths, path2 \in DirPaths, ok \in BOOLEAN :
            (rename(path, path2, ok) /\ renameRet(path, path2, ok).err = "") =>
                /\ acts'[searches[pathdec(path)[1]]].cleaned
                /\ \A s \in Owned(acts, searches[pathdec(path)[1]]) : stor'[s].state = "closed"]_vars

\* C6: rmdir fails EINVAL on the root, ENOTDIR on a result-file or control-file
\* path, ENOENT on an absent search directory, and succeeds on every existing
\* search directory, whatever handles are open; a successful rmdir has cleaned
\* the ResultSet and closed its stores, has removed the name from the mount map
\* (from readdir of the root, and getattr fails ENOENT) and has left the handle
\* table alone; a failing rmdir leaves the mount map unchanged.
C6_RmdirResult ==
    \A path \in Paths : Parseable(path) =>
        LET tid == pathdec(path)
            err == rmdirRet(path).err
        IN  /\ PathType(tid) = "main" => err = "EINVAL"
            /\ PathType(tid) \in {"file", "ctrl"} => err = "ENOTDIR"
            /\ PathType(tid) = "subdir" /\ tid[1] \notin DOMAIN searches => err = "ENOENT"
            /\ PathType(tid) = "subdir" /\ tid[1] \in DOMAIN searches => err = ""

C6_Rmdir ==
    /\ []C6_RmdirResult
    /\ [][vars' # vars => \A path \in Paths :
            (Parseable(path) /\ rmdir(path)) =>
                LET tid == pathdec(path)
                IN  IF rmdirRet(path).err = ""
                    THEN /\ acts'[searches[tid[1]]].cleaned
                         /\ \A s \in Owned(acts, searches[tid[1]]) : stor'[s].state = "closed"
                         /\ DOMAIN searches' = DOMAIN searches \ {tid[1]}
                         /\ \A q \in DOMAIN searches' : searches'[q] = searches[q]
                         /\ getattrCheck(tid)' = "ENOENT"
                         /\ \A i \in DOMAIN readdirList(<<None, None>>)' :
                                readdirList(<<None, None>>)'[i] # tid[1]
                         /\ fds' = fds
                    ELSE searches' = searches]_vars

\* a directory was removed while a handle on one of its stores was open
C6_Witness ==
    \E r \in 1..Len(acts) :
        /\ acts[r].cleaned
        /\ r \notin Range(searches)
        /\ \E fh \in DOMAIN fds : fds[fh] # NoStor /\ stor[fds[fh]].owner = r

C8_Mkdir ==
    [][\A path \in Paths, ok \in BOOLEAN :
            (Parseable(path) /\ mkdir(path, ok)) =>
                IF PathType(pathdec(path)) # "subdir"
                THEN mkdirRet(path, ok).err = "EPERM" /\ UNCHANGED <<searches, acts, stor>>
                ELSE IF pathdec(path)[1] \in DOMAIN searches
                THEN mkdirRet(path, ok).err = "EEXIST" /\ UNCHANGED <<searches, acts, stor>>
                ELSE /\ searches' = Extend(searches, pathdec(path)[1], Len(acts) + 1)
                     /\ Len(acts') = Len(acts) + 1
                     /\ acts'[Len(acts) + 1].page = 0
                     /\ ok => DOMAIN acts'[Len(acts) + 1].files = {FileName(0)}]_vars

\* C9: mkdir calls that run concurrently never replace a ResultSet that was
\* inserted: every ResultSet is in the mount map or has been cleaned, and no
\* two threads are past the existence check for the same name.
C9_MapExclusive ==
    /\ \A r \in 1..Len(acts) : r \in Range(searches) \/ acts[r].cleaned
    /\ \A t \in Threads, u \in Threads :
          (t # u /\ pc[t] = "mkdir_update" /\ pc[u] = "mkdir_update") => loc[t].tid # loc[u].tid

\* C10: the bytes payload[offset : offset + length] of the 10-byte payload
C10_Window(offset, length) ==
    [i \in 1..(IF offset >= 10 THEN 0 ELSE Min(length, 10 - offset)) |-> sh_script[offset + i]]

CtrlPaths == {path \in ReadPaths : Parseable(path) /\ pathdec(path)[2] \in {next, prev}}

\* the page a control-file read leaves the cursor on
C10_Paged(path, page) ==
    IF pathdec(path)[2] = next THEN (IF page = MaxPage THEN page ELSE page + 1)
    ELSE (IF page = 0 THEN 0 ELSE page - 1)

Registered(S) == [s \in 1..Len(S) |-> S[s].fds]
FilePaths == {path \in Paths : Parseable(path) /\ PathType(pathdec(path)) \in {"file", "ctrl"}}

\* C11: a read-only open of an existing result file calls obtainInfo on its
\* store; when that succeeds the open allocates one handle bound to the store
\* and registers exactly that id with it, when it fails the open fails ENOENT
\* and the handle table is unchanged.  A read-only open of an existing control
\* file allocates one handle bound to no store and registers nothing.  An open
\* of a file that does not exist fails ENOENT, one of the root or of a search
\* directory fails EINVAL, and both allocate nothing.
C11_OpenResult ==
    \A path \in Paths, ok \in BOOLEAN : Parseable(path) =>
        LET tid == pathdec(path)
            res == openRet(path, 0, ok)
        IN  /\ PathType(tid) \in {"main", "subdir"} => res = Err("EINVAL")
            /\ (PathType(tid) \in {"file", "ctrl"} /\ ~exists(tid)) => res = Err("ENOENT")
            /\ (PathType(tid) = "ctrl" /\ exists(tid)) => res = Ret("", push(DOMAIN fds), <<>>)
            /\ (PathType(tid) = "file" /\ exists(tid)) =>
                   res = IF obtainInfo(stor, Lookup(tid), ok)
                         THEN Ret("", push(DOMAIN fds), <<>>) ELSE Err("ENOENT")

C11_Open ==
    /\ []C11_OpenResult
    /\ [][(fds' # fds \/ stor' # stor) => \A path \in FilePaths, ok \in BOOLEAN :
            open(path, 0, ok) =>
                LET tid == pathdec(path)
                    k == openRet(path, 0, ok).val
                IN  IF openRet(path, 0, ok).err # "" THEN fds' = fds /\ Registered(stor') = Registered(stor)
                    ELSE /\ DOMAIN fds' = DOMAIN fds \cup {k}
                         /\ k \notin DOMAIN fds
                         /\ \A fh \in DOMAIN fds : fds'[fh] = fds[fh]
                         /\ IF PathType(tid) = "ctrl"
                            THEN fds'[k] = NoStor /\ Registered(stor') = Registered(stor)
                            ELSE /\ fds'[k] = Lookup(tid)
                                 /\ stor'[Lookup(tid)].state = "ready"
                                 /\ Registered(stor') =
                                        [Registered(stor) EXCEPT ![Lookup(tid)] = @ \cup {k}]]_vars

\* a handle on a store and a handle on a control file are open, and an open
\* failed on a store whose information could not be obtained
C11_Witness ==
    /\ \E fh \in DOMAIN fds, gh \in DOMAIN fds :
          fds[fh] # NoStor /\ fh \in stor[fds[fh]].fds /\ fds[gh] = NoStor
    /\ \E s \in 1..Len(stor) :
          /\ stor[s].state = "closed" /\ stor[s].fds = {}
          /\ \E q \in DOMAIN searches : s \in Owned(acts, searches[q])

\* C12 as stated: an open with write-only or read-write flags fails EROFS for
\* every path, allocates no handle and registers nothing.
C12_WriteOpen ==
    \A path \in Paths, flags \in {O_WRONLY, O_RDWR}, ok \in BOOLEAN :
        openRet(path, flags, ok) = Err("EROFS")

\* C12 as amended: an open with write-only or read-write flags of a result-file
\* or control-file path, existing or not, fails EROFS; of any other path it
\* fails EINVAL; for no path does it allocate a handle or register anything.
C12_WriteOpenOfFile ==
    /\ [](\A path \in Paths, flags \in {O_WRONLY, O_RDWR}, ok \in BOOLEAN :
            openRet(path, flags, ok) = IF path \in FilePaths THEN Err("EROFS") ELSE Err("EINVAL"))
    /\ [][(fds' # fds \/ stor' # stor) =>
            \A path \in Paths, flags \in {O_WRONLY, O_RDWR}, ok \in BOOLEAN :
                ~open(path, flags, ok)]_vars

\* a result file is open for reading while an open for writing is tried on it
C12_Witness ==
    \E path \in FilePaths, fh \in DOMAIN fds :
        /\ PathType(pathdec(path)) = "file" /\ exists(pathdec(path))
        /\ fds[fh] = Lookup(pathdec(path))
        /\ openRet(path, O_RDWR, TRUE).err = "EROFS"

\* C13 as stated: unlink returns success for every path in every state and
\* changes nothing.
C13_Unlink ==
    /\ [](\A path \in Paths : unlinkRet(path) = Ok)
    /\ [][vars' # vars => \A path \in Paths :
            unlink(path) => UNCHANGED <<searches, acts, fds>>]_vars

\* C13 as amended: unlink returns success for every parseable path and fails
\* EINVAL for every other path; in both cases it is a no-op: the mount map, the
\* pages and the handle table are unchanged, so the name is listed and opens as
\* before.
C13_UnlinkParseable ==
    /\ [](\A path \in AllPaths : unlinkRet(path) = IF Parseable(path) THEN Ok ELSE Err("EINVAL"))
    /\ [][vars' # vars => \A path \in Paths :
            unlink(path) =>
                /\ UNCHANGED <<searches, acts, fds>>
                /\ readdirRet(Slash \o <<"a">>)' = readdirRet(Slash \o <<"a">>)
                /\ \A ok \in BOOLEAN : openRet(path, 0, ok)' = openRet(path, 0, ok)]_vars

\* a result file of the second page exists, so that an unlink of it returns
\* success and leaves it listed
C13_Witness ==
    \E path \in FilePaths :
        /\ PathType(pathdec(path)) = "file" /\ exists(pathdec(path))
        /\ acts[searches[pathdec(path)[1]]].page = 1
        /\ unlinkRet(path) = Ok
        /\ \E i \in DOMAIN readdirRet(Slash \o <<"a">>).data :
              readdirRet(Slash \o <<"a">>).data[i] = pathdec(path)[2]

Segments(path) == {i \in 1..Len(split(path, "/")) : split(path, "/")[i] # <<>>}
DirPath == Slash \o <<"a">>
FilePath == Slash \o <<"a">> \o Slash \o FileName(0)

\* every operation fails EINVAL when it is given the path
FailsEINVAL(path) ==
    /\ getattrRet(path).err = "EINVAL"
    /\ readdirRet(path).err = "EINVAL"
    /\ rmdirRet(path).err = "EINVAL"
    /\ unlinkRet(path).err = "EINVAL"
    /\ \A ok \in BOOLEAN :
          /\ mkdirRet(path, ok).err = "EINVAL"
          /\ \A other \in DirPaths :
                renameRet(path, other, ok).err = "EINVAL" /\ renameRet(other, path, ok).err = "EINVAL"
          /\ \A flags \in Flags : openRet(path, flags, ok).err = "EINVAL"
          /\ \A fh \in Handles, w \in Windows : readRet(path, w[2], w[1], fh, ok).err = "EINVAL"
    /\ \A fh \in Handles : releaseRet(path, fh).err = "EINVAL"

\* what C15 says of every path but those with a trailing slash
C15_Valid(path) ==
    /\ Parseable(path) => (path # <<>> /\ Head(path) = "/" /\ Cardinality(Segments(path)) <= 2)
    /\ (path = <<>> \/ Head(path) # "/" \/ Cardinality(Segments(path)) > 2) => ~Parseable(path)
    /\ (Len(path) >= 2 /\ SubSeq(path, 1, 2) = Slash \o Slash /\ Segments(path) # {})
           => ~Parseable(path)
    /\ ~Parseable(path) => FailsEINVAL(path)

\* C15 as stated: a path is valid only if it starts with `/` and has at most
\* two non-empty segments; a search-dir path and a file path followed by one
\* `/` classify as without it; the empty path, a path of more than two
\* segments, a path that does not start with `/` and a file name under an empty
\* directory segment are invalid, and every operation fails EINVAL on an
\* invalid path.
C15_PathModel ==
    /\ \A path \in AllPaths : C15_Valid(path)
    /\ pathdec(DirPath \o Slash) = pathdec(DirPath)
    /\ pathdec(FilePath \o Slash) = pathdec(FilePath)

\* C15 as amended: the same, but the trailing slash is tolerated after a
\* search-dir path only; a file path followed by `/` has three slashes and is
\* invalid.
C15_PathModelDirSlash ==
    /\ \A path \in AllPaths : C15_Valid(path)
    /\ pathdec(DirPath \o Slash) = pathdec(DirPath)
    /\ PathType(pathdec(DirPath \o Slash)) = "subdir"
    /\ ~Parseable(FilePath \o Slash)
    /\ PathType(pathdec(FilePath)) = "file"

\* the directory and the file exist and a handle is open, so that the
\* operations on the paths with a trailing slash get past their first checks
C15_Witness ==
    /\ exists(pathdec(FilePath))
    /\ getattrRet(DirPath \o Slash).kind = "S_IFDIR"
    /\ openRet(FilePath, 0, TRUE).err = ""
    /\ openRet(FilePath \o Slash, 0, TRUE) = Err("EINVAL")
    /\ fds # <<>>

\* C16: getattr reports a directory of mode 0555 for the root and for every
\* search directory in the mount map, a regular file of mode 0444 and the size
\* of its store for an existing result file, a regular file of mode 0555 and
\* size 10 for an existing control file, and fails ENOENT for every parseable
\* path that names nothing; it reports a directory for no path but the root
\* (a path without a non-empty segment) and the keys of the mount map.
C16_Getattr ==
    \A path \in AllPaths : Parseable(path) =>
        LET tid == pathdec(path)
            st == getattrRet(path)
        IN  /\ (Segments(path) = {} \/ (PathType(tid) = "subdir" /\ tid[1] \in DOMAIN searches))
                   => (st.err = "" /\ st.kind = "S_IFDIR" /\ st.mode = 365)
            /\ (PathType(tid) = "file" /\ tid[1] \in DOMAIN searches
                    /\ tid[2] \in DOMAIN acts[searches[tid[1]]].files)
                   => st = Stat("", "S_IFREG", 292, filesize)
            /\ (PathType(tid) = "ctrl" /\ tid[1] \in DOMAIN searches /\ tid[2] \in {next, prev})
                   => st = Stat("", "S_IFREG", 365, 10)
            /\ (Segments(path) # {} /\ tid[1] \notin DOMAIN searches) => st.err = "ENOENT"
            /\ (PathType(tid) \in {"file", "ctrl"} /\ tid[1] \in DOMAIN searches
                    /\ ~Contains(acts, searches[tid[1]], tid[2]))
                   => st.err = "ENOENT"
            /\ st.kind = "S_IFDIR"
                   => (Segments(path) = {} \/ (tid[2] = None /\ tid[1] \in DOMAIN searches))

\* directory a is on its second page, so that the file of the first page is
\* gone, and directory b is absent
C16_Witness ==
    /\ <<"a">> \in DOMAIN searches
    /\ <<"b">> \notin DOMAIN searches
    /\ acts[searches[<<"a">>]].page = 1
    /\ getattrRet(FilePath).err = "ENOENT"
    /\ getattrRet(DirPath \o Slash \o FileName(1)).kind = "S_IFREG"
    /\ getattrRet(DirPath \o Slash \o next).size = 10

\* q is listed by readdir of the root
Listed(q) ==
    /\ readdirRet(Slash).err = ""
    /\ \E i \in DOMAIN readdirRet(Slash).data : readdirRet(Slash).data[i] = q

\* C18: for every query name q: q is listed by readdir of the root iff getattr
\* of /q reports a directory iff mkdir of /q fails EEXIST iff readdir of /q does
\* not fail ENOENT; readdir of the root lists ".", ".." and every existing
\* query name once.
C18_ViewsAgree ==
    /\ \A q \in Queries :
          /\ Listed(q) <=> (getattrRet(Slash \o q).err = "" /\ getattrRet(Slash \o q).kind = "S_IFDIR")
          /\ \A ok \in BOOLEAN : Listed(q) <=> (mkdirRet(Slash \o q, ok).err = "EEXIST")
          /\ Listed(q) <=> (readdirRet(Slash \o q).err # "ENOENT")
          /\ Listed(q) <=> (q \in DOMAIN searches)
    /\ LET data == readdirRet(Slash).data
       IN  /\ Len(data) = 2 + Cardinality(DOMAIN searches)
           /\ data[1] = <<".">> /\ data[2] = <<".", ".">>
           /\ \A q \in DOMAIN searches : Cardinality({i \in DOMAIN data : data[i] = q}) = 1

\* directory a is there, directory b was there and is gone
C18_Witness ==
    /\ <<"a">> \in DOMAIN searches
    /\ <<"b">> \notin DOMAIN searches
    /\ \E r \in 1..Len(acts) : acts[r].query = <<"b">>
    /\ Listed(<<"a">>) /\ ~Listed(<<"b">>)

\* C17: every key of the mount map is a non-empty string without "/"; a key
\* is added only by a mkdir or a rename that succeeds and removed only by an
\* rmdir or a rename.
C17_Keys ==
    /\ [](\A q \in DOMAIN searches : q # <<>> /\ q # None /\ count(q, "/") = 0)
    /\ [][DOMAIN searches' # DOMAIN searches =>
            /\ (DOMAIN searches' \ DOMAIN searches # {}) =>
                   \/ \E path \in Paths, ok \in BOOLEAN :
                          mkdir(path, ok) /\ mkdirRet(path, ok).err = ""
                   \/ \E path \in DirPaths, path2 \in DirPaths, ok \in BOOLEAN :
                          rename(path, path2, ok) /\ renameRet(path, path2, ok).err = ""
            /\ (DOMAIN searches \ DOMAIN searches' # {}) =>
                   \/ \E path \in Paths : rmdir(path)
                   \/ \E path \in DirPaths, path2 \in DirPaths, ok \in BOOLEAN :
                          rename(path, path2, ok)]_vars

Errnos == {"EINVAL", "ENOENT", "EPERM", "EEXIST", "ENOTDIR", "EROFS", "EBADF"}

\* C19: a call that fails with an errno of its own checks leaves the mount
\* map, every ResultSet with its page and the handle table as they were.
C19_FailuresChangeNothing ==
    [][vars' # vars =>
        /\ \A path \in Paths, ok \in BOOLEAN :
              (mkdir(path, ok) /\ mkdirRet(path, ok).err \in Errnos) => UNCHANGED <<searches, acts, fds>>
        /\ \A path \in DirPaths, path2 \in DirPaths, ok \in BOOLEAN :
              (rename(path, path2, ok) /\ renameRet(path, path2, ok).err \in Errnos)
                  => UNCHANGED <<searches, acts, fds>>
        /\ \A path \in Paths :
              /\ (rmdir(path) /\ rmdirRet(path).err \in Errnos) => UNCHANGED <<searches, acts, fds>>
              /\ (unlink(path) /\ unlinkRet(path).err \in Errnos) => UNCHANGED <<searches, acts, fds>>
              /\ (getattr(path) /\ getattrRet(path).err \in Errnos) => UNCHANGED <<searches, acts, fds>>
              /\ (readdir(path) /\ readdirRet(path).err \in Errnos) => UNCHANGED <<searches, acts, fds>>
        /\ \A path \in Paths, flags \in Flags, ok \in BOOLEAN :
              (open(path, flags, ok) /\ openRet(path, flags, ok).err \in Errnos)
                  => UNCHANGED <<searches, acts, fds>>
        /\ \A path \in ReadPaths, w \in Windows, fh \in Handles, ok \in BOOLEAN :
              (read(path, w[2], w[1], fh, ok) /\ readRet(path, w[2], w[1], fh, ok).err \in Errnos)
                  => UNCHANGED <<searches, acts, fds>>
        /\ \A path \in DirPaths, fh \in Handles :
              (release(path, fh) /\ releaseRet(path, fh).err \in Errnos) => UNCHANGED <<searches, acts, fds>>]_vars

\* an open of an existing result file has failed ENOENT because the store could
\* not obtain its information, and no handle is in the table
C19_Witness ==
    /\ fds = <<>>
    /\ exists(pathdec(FilePath))
    /\ PathType(pathdec(FilePath)) = "file"
    /\ stor[Lookup(pathdec(FilePath))].state = "closed"
    /\ openRet(FilePath, 0, TRUE) = Err("ENOENT")

\* C20: the handle table is changed only by open, which adds one id, and by
\* release, which removes one id; mkdir, rmdir, rename, read, getattr, readdir
\* and unlink leave it alone, so the handles on the stores of a removed
\* directory stay in the table.  The key set of the mount map is changed only by
\* mkdir, rmdir and rename; open, read, release, getattr, readdir and unlink
\* leave it alone.
C20_Frame ==
    [][vars' # vars =>
        /\ fds' # fds =>
              \/ \E k \in Handles \ DOMAIN fds :
                    /\ DOMAIN fds' = DOMAIN fds \cup {k}
                    /\ \E path \in Paths, flags \in Flags, ok \in BOOLEAN : open(path, flags, ok)
              \/ \E k \in DOMAIN fds :
                    /\ DOMAIN fds' = DOMAIN fds \ {k}
                    /\ \E path \in DirPaths : release(path, k)
        /\ DOMAIN searches' # DOMAIN searches =>
              \/ \E path \in Paths, ok \in BOOLEAN : mkdir(path, ok)
              \/ \E path \in Paths : rmdir(path)
              \/ \E path \in DirPaths, path2 \in DirPaths, ok \in BOOLEAN : rename(path, path2, ok)
        /\ \A path \in Paths :
              /\ (\E ok \in BOOLEAN : mkdir(path, ok)) => fds' = fds
              /\ rmdir(path) => fds' = fds
              /\ (unlink(path) \/ getattr(path) \/ readdir(path))
                     => (fds' = fds /\ DOMAIN searches' = DOMAIN searches)
              /\ (\E flags \in Flags, ok \in BOOLEAN : open(path, flags, ok))
                     => DOMAIN searches' = DOMAIN searches
        /\ \A path \in DirPaths :
              /\ (\E path2 \in DirPaths, ok \in BOOLEAN : rename(path, path2, ok)) => fds' = fds
              /\ (\E fh \in Handles : release(path, fh)) => DOMAIN searches' = DOMAIN searches
        /\ \A path \in ReadPaths :
              (\E w \in Windows, fh \in Handles, ok \in BOOLEAN : read(path, w[2], w[1], fh, ok))
                  => (fds' = fds /\ DOMAIN searches' = DOMAIN searches)]_vars

\* a handle is in the table on a store of a directory that a rename dropped,
\* and another on a store of a directory that an rmdir removed
C20_Witness ==
    \E fh \in DOMAIN fds, gh \in DOMAIN fds :
        /\ fds[fh] # NoStor /\ fds[gh] # NoStor
        /\ stor[fds[fh]].owner \notin Range(searches)
        /\ ~acts[stor[fds[fh]].owner].cleaned
        /\ acts[stor[fds[gh]].owner].cleaned

====
